---- MODULE Spec2Model ----
(***************************************************************************)
(* RealTimeDataClient of poly-sdk: the two drafts of the resilient         *)
(* WebSocket client.                                                       *)
(*                                                                         *)
(*   variant "D"  the defensive draft          (src/unnamed/part_001)      *)
(*   variant "W"  the ws-client.ts draft       (src/src/clients/ws-client.ts) *)
(*                                                                         *)
(* One instance of one of the two classes is modelled together with its    *)
(* environment: the sockets it created (readyState and the four handler    *)
(* slots of each), the timers it armed, and the owner.  A step of the      *)
(* model is one turn of the event loop: a public method called by the      *)
(* owner, a socket event dispatched to its handler slot, or a timer        *)
(* callback.  Every turn runs to completion (JavaScript is single          *)
(* threaded), so each action is the whole handler.  The owner's calls are  *)
(* turns of their own: calls made re-entrantly from inside a callback of   *)
(* the client are not modelled.                                            *)
(***************************************************************************)
EXTENDS Integers, Sequences, FiniteSets, TLC

\* ------------------------------------------------------------------ bounds
\* Sockets that exist at once (the current one and those still closing).
MaxSock == 2
\* Timer handles of one kind that are armed at once.
MaxTimers == 2
\* Completion callbacks of ws.send that are outstanding at once.
MaxCb == 1

\* --------------------------------------------------------------- constants
Null == 0

SockIds == 1..MaxSock
TimerIds == 1..MaxTimers

\* WebSocket.readyState, and FREE for a handle that does not exist (never
\* created, or closed and no longer referenced by anything).
ReadyStates == {"FREE", "CONNECTING", "OPEN", "CLOSING", "CLOSED"}

\* The four handler slots of a socket: onopen, onmessage, onclose, onerror.
AllHandlers == {"open", "message", "close", "error"}

\* ConnectionStatus
Statuses == {"CONNECTING", "CONNECTED", "DISCONNECTED"}

\* --------------------------------------------------------------- JSON text
\* An object is a sequence of <<key, value>> pairs with distinct keys, in
\* insertion order.  JSON text is the flat sequence of its tokens
\* <<k1, v1, k2, v2, ...>>.
HasKey(obj, k) == \E i \in 1..Len(obj) : obj[i][1] = k

Get(obj, k) == obj[CHOOSE i \in 1..Len(obj) : obj[i][1] = k][2]

\* obj[k] = v: an existing key keeps its place, a new key goes last.
SetKey(obj, k, v) ==
  IF HasKey(obj, k)
  THEN [i \in 1..Len(obj) |-> IF obj[i][1] = k THEN <<k, v>> ELSE obj[i]]
  ELSE Append(obj, <<k, v>>)

\* { ...base, ...msg }
RECURSIVE Spread(_, _)
Spread(base, msg) ==
  IF msg = <<>> THEN base
  ELSE Spread(SetKey(base, Head(msg)[1], Head(msg)[2]), Tail(msg))

\* The value undefined; every other value is a string.
Undefined == "undefined"

\* JSON.stringify of an object whose values are strings or undefined: a
\* property whose value is undefined is left out.
RECURSIVE JSONstringify(_)
JSONstringify(obj) ==
  IF obj = <<>> THEN <<>>
  ELSE (IF Head(obj)[2] = Undefined THEN <<>> ELSE <<Head(obj)[1], Head(obj)[2]>>)
         \o JSONstringify(Tail(obj))

\* JSON.parse of such a text; a repeated key keeps its last value.
RECURSIVE JSONparse(_)
JSONparse(text) ==
  IF Len(text) < 2 THEN <<>>
  ELSE LET rest == JSONparse(SubSeq(text, 1, Len(text) - 2))
       IN SetKey(rest, text[Len(text) - 1], text[Len(text)])

\* The SubscriptionMessage values the owner passes.
Msgs ==
  {<<>>}
  \cup {<<<<"topic", v>>>> : v \in {"X", Undefined}}
  \cup {<<<<"action", v>>>> : v \in {"X"}}
  \cup {<<<<"topic", "X">>, <<"action", v>>>> : v \in {"X"}}

\* Frames a server may deliver (event.data).
InFrames ==
  {"pong", "json_payload", "json_plain", "garbage", "garbage_payload",
   "empty", "binary"}

\* typeof event.data === "string"
IsString(f) == f # "binary"

\* JSON.parse(event.data) succeeds
ParsesAsJSON(f) == f \in {"json_payload", "json_plain"}

\* event.data.includes("payload")
IncludesPayload(f) == f \in {"json_payload", "garbage_payload"}

\* ------------------------------------------------------------------- state
VARIABLES
  variant,          \* which class the instance is: "D" or "W"
  autoReconnect,    \* this.autoReconnect
  ws,               \* this.ws: a socket id, or Null
  sock,             \* the sockets: id -> [state, handlers]
  pingTimer,        \* D: this.pingTimer (a handle, or Null for undefined)
  pongTimeout,      \* D: this.pongTimeout
  reconnectTimer,   \* D: this.reconnectTimer
  armedPing,        \* D: the setInterval handles that will still tick
  armedPong,        \* D: the pong setTimeout handles that will still fire
  armedRec,         \* D: the reconnect setTimeout handles that will still fire
  reconnecting,     \* W: this.reconnecting
  manuallyClosed,   \* W: this.manuallyClosed
  pendingRec,       \* W: reconnect setTimeouts that will still fire
  sendCb,           \* W: ws.send completion callbacks not yet run
  statusLog,        \* what onStatusChange received: the last two of it
  discCalled,       \* "never" | "since" (disconnect() called, the owner has
                    \*   not called connect() since) | "again"
  step              \* the turn just taken and what it did towards the owner
                    \*   and the wire

vars == <<variant, autoReconnect, ws, sock, pingTimer, pongTimeout,
          reconnectTimer, armedPing, armedPong, armedRec, reconnecting,
          manuallyClosed, pendingRec, sendCb, statusLog, discCalled, step>>

\* The whole state as one record, so that a handler is a composition of the
\* methods it calls.
Cur ==
  [variant |-> variant, autoReconnect |-> autoReconnect, ws |-> ws,
   sock |-> sock, pingTimer |-> pingTimer, pongTimeout |-> pongTimeout,
   reconnectTimer |-> reconnectTimer, armedPing |-> armedPing,
   armedPong |-> armedPong, armedRec |-> armedRec,
   reconnecting |-> reconnecting, manuallyClosed |-> manuallyClosed,
   pendingRec |-> pendingRec, sendCb |-> sendCb, statusLog |-> statusLog,
   discCalled |-> discCalled, step |-> step]

\* Socket ids are names the model gives to objects: the sockets are renamed
\* after every turn so that the referenced one comes first and the others
\* follow by readyState.  Nothing of the instance depends on the names.
StateRank(st) ==
  CASE st = "CONNECTING" -> 1
    [] st = "OPEN" -> 2
    [] st = "CLOSING" -> 3
    [] st = "CLOSED" -> 4
    [] st = "FREE" -> 9

Rank(c, s) ==
  (IF c.ws = s THEN 0 ELSE 100) + 10 * StateRank(c.sock[s].state)
    + Cardinality(c.sock[s].handlers)

Ranks(c) == [s \in DOMAIN c.sock |-> Rank(c, s)]

\* The new name of every socket, from the ranks r.
NewNames(r) ==
  [s \in DOMAIN r |->
     1 + Cardinality({t \in DOMAIN r : r[t] < r[s] \/ (r[t] = r[s] /\ t < s)})]

\* The socket that gets each name.
OldNames(new) == [n \in DOMAIN new |-> CHOOSE s \in DOMAIN new : new[s] = n]

Renamed(c, new, old) ==
  [c EXCEPT !.ws = IF @ = 0 THEN 0 ELSE new[@],
            !.sock = [n \in DOMAIN old |-> c.sock[old[n]]],
            !.step.sock = IF @ = 0 THEN 0 ELSE new[@],
            !.step.sent = [i \in DOMAIN @ |-> [@[i] EXCEPT !.sock = new[@]]]]

Commit(c0) ==
  \E c1 \in {c0} : \E r \in {Ranks(c1)} : \E new \in {NewNames(r)} :
  \E old \in {OldNames(new)} : \E c \in {Renamed(c1, new, old)} :
  /\ variant' = c.variant
  /\ autoReconnect' = c.autoReconnect
  /\ ws' = c.ws
  /\ sock' = c.sock
  /\ pingTimer' = c.pingTimer
  /\ pongTimeout' = c.pongTimeout
  /\ reconnectTimer' = c.reconnectTimer
  /\ armedPing' = c.armedPing
  /\ armedPong' = c.armedPong
  /\ armedRec' = c.armedRec
  /\ reconnecting' = c.reconnecting
  /\ manuallyClosed' = c.manuallyClosed
  /\ pendingRec' = c.pendingRec
  /\ sendCb' = c.sendCb
  /\ statusLog' = c.statusLog
  /\ discCalled' = c.discCalled
  /\ step' = c.step

\* The element of a one-element set.  Only({e(c) : c \in {x}}) is e(x), with
\* x computed once and then shared by every use e makes of it.
Only(S) == CHOOSE r \in S : TRUE

\* A turn starts: op is the entry point, s the socket whose event it is (Null
\* for a call or a timer), msg the argument of subscribe/unsubscribe, data
\* the event.data of a message event.
Begin(c, op, s, msg, data) ==
  [c EXCEPT !.step = [op |-> op, sock |-> s, msg |-> msg, data |-> data,
                      notes |-> <<>>, sent |-> <<>>, cbs |-> <<>>]]

NoSocket == [state |-> "FREE", handlers |-> {}]

\* ------------------------------------------------------------- environment
Min(S) == CHOOSE x \in S : \A y \in S : x <= y

FreeSocks(c) == {s \in SockIds : c.sock[s].state = "FREE"}

\* setTimeout / setInterval return a handle no armed timer has.
FreshTimer(armed) == Min(TimerIds \ armed)

\* A socket that is CLOSED delivers nothing more; once the instance does not
\* reference it either, it is gone.
Collect(c0) ==
  Only({[c EXCEPT !.sock = [s \in SockIds |->
       IF c.sock[s].state = "CLOSED" /\ c.ws # s THEN NoSocket ELSE c.sock[s]]]
      : c \in {c0}})

\* socket.close() (and terminate()): CONNECTING and OPEN become CLOSING, the
\* close event follows later; CLOSING and CLOSED stay.
SockClose(c0, s) ==
  Only({IF c.sock[s].state \in {"CONNECTING", "OPEN"}
    THEN [c EXCEPT !.sock[s].state = "CLOSING"]
    ELSE c
      : c \in {c0}})

\* socket.send(data) on socket s.
SockSend(c, s, data) ==
  [c EXCEPT !.step.sent = Append(@, [sock |-> s, data |-> data])]

\* new WebSocket(host) assigned to this.ws, and the four handler slots set.
\* The socket this.ws referenced before is referenced no more.
NewSocket(c0) ==
  Only({Only({[c EXCEPT !.ws = s,
                !.sock[s] = [state |-> "CONNECTING", handlers |-> AllHandlers]]
      : s \in {Min(FreeSocks(c))}})
      : c \in {Collect([c0 EXCEPT !.ws = Null])}})

\* Whether the model has a socket id left for new WebSocket(host).
CanCreate(c) == FreeSocks(Collect([c EXCEPT !.ws = Null])) # {}

\* Whether the model has a handle left for setTimeout / setInterval.
CanArm(armed) == armed # TimerIds

IsOpen(c) == c.ws # Null /\ c.sock[c.ws].state = "OPEN"

\* ------------------------------------------------ both variants: the owner
\* notifyStatusChange(status)
notifyStatusChange(c, status) ==
  [c EXCEPT !.statusLog = IF Len(@) = 2 THEN Append(Tail(@), status)
                                        ELSE Append(@, status),
            !.step.notes = Append(@, status)]

\* this.onConnect(this), this.onCustomMessage(this, message)
\* notes: how many status notifications of the turn came before the call.
OwnerCallback(c0, cb, arg) ==
  Only({[c EXCEPT !.step.cbs =
           Append(@, [cb |-> cb, arg |-> arg, notes |-> Len(c.step.notes)])]
      : c \in {c0}})

\* The heartbeat frame, the one frame that is not JSON text.
PingFrame == <<"ping">>

\* -------------------------------------------- variant D: src/unnamed/part_001
clearPongTimeout(c0) ==
  Only({IF c.pongTimeout # Null
    THEN [c EXCEPT !.armedPong = @ \ {c.pongTimeout}, !.pongTimeout = Null]
    ELSE c
      : c \in {c0}})

stopPinging(c0) ==
  Only({clearPongTimeout(
      IF c.pingTimer # Null
      THEN [c EXCEPT !.armedPing = @ \ {c.pingTimer}, !.pingTimer = Null]
      ELSE c)
      : c \in {c0}})

startPinging(c0) ==
  Only({Only({[c EXCEPT !.pingTimer = t, !.armedPing = @ \cup {t}]
      : t \in {FreshTimer(c.armedPing)}})
      : c \in {stopPinging(c0)}})

\* The setInterval callback of startPinging.
pingTick(c0) ==
  Only({IF IsOpen(c)
    THEN Only({[SockSend(c, c.ws, PingFrame)
              EXCEPT !.pongTimeout = t, !.armedPong = @ \cup {t}]
      : t \in {FreshTimer(c.armedPong)}})
    ELSE c
      : c \in {c0}})

\* A pong timeout that only warns.
pongTimeoutOnlyWarns(c) == c

\* The setTimeout callback of the ping: terminate() or close() of this.ws.
pongTimeoutFired(c0) ==
  Only({IF c.ws # Null THEN SockClose(c, c.ws) ELSE c
      : c \in {c0}})

\* scheduleReconnect as the other draft has it: the handle is not kept.
scheduleReconnectDropsHandle(c) ==
  IF c.reconnectTimer # Null \/ ~CanArm(c.armedRec) THEN c
  ELSE [c EXCEPT !.armedRec = @ \cup {FreshTimer(c.armedRec)}]

scheduleReconnect(c0) ==
  Only({IF c.reconnectTimer # Null THEN c
    ELSE Only({[c EXCEPT !.reconnectTimer = t, !.armedRec = @ \cup {t}]
      : t \in {FreshTimer(c.armedRec)}})
      : c \in {c0}})

\* clearTimers that cancels nothing.
clearTimersKeepsTimer(c) == c

clearTimers(c0) ==
  Only({IF c.reconnectTimer # Null
    THEN [c EXCEPT !.armedRec = @ \ {c.reconnectTimer}, !.reconnectTimer = Null]
    ELSE c
      : c \in {c0}})

\* cleanupWS that leaves the onclose slot set.
cleanupWSKeepsOnclose(c) ==
  IF c.ws # Null
  THEN LET c1 == [c EXCEPT !.sock[c.ws].handlers = @ \cap {"close"}]
           c2 == IF c1.sock[c.ws].state # "CLOSED" THEN SockClose(c1, c.ws) ELSE c1
       IN Collect([c2 EXCEPT !.ws = Null])
  ELSE c

cleanupWS(c0) ==
  Only({IF c.ws # Null
    THEN Only({Collect([(IF c1.sock[c.ws].state # "CLOSED"
                     THEN SockClose(c1, c.ws) ELSE c1) EXCEPT !.ws = Null])
      : c1 \in {[c EXCEPT !.sock[c.ws].handlers = {}]}})
    ELSE c
      : c \in {c0}})

\* connect(); throws: new WebSocket(this.host) throws.
connectD(c, throws) ==
  Only({IF throws THEN scheduleReconnect(c1) ELSE NewSocket(c1)
      : c1 \in {notifyStatusChange(cleanupWS(clearTimers(c)), "CONNECTING")}})

\* handleOpen that calls onConnect before it notifies CONNECTED.
handleOpenConnectFirst(c) ==
  startPinging(notifyStatusChange(OwnerCallback(c, "onConnect", "none"), "CONNECTED"))

handleOpen(c) ==
  OwnerCallback(startPinging(notifyStatusChange(c, "CONNECTED")),
                "onConnect", "none")

\* handleMessage that closes the socket on a frame it cannot parse.
handleMessageFatal(c, data) ==
  IF IsString(data) /\ data # "empty"
  THEN IF data = "pong" THEN clearPongTimeout(c)
       ELSE IF ParsesAsJSON(data) THEN OwnerCallback(c, "onMessage", data)
       ELSE cleanupWS(c)
  ELSE c

handleMessage(c, data) ==
  IF IsString(data) /\ data # "empty"
  THEN IF data = "pong" THEN clearPongTimeout(c)
       ELSE IF ParsesAsJSON(data) THEN OwnerCallback(c, "onMessage", data)
       ELSE c
  ELSE c

handleError(c) == c

\* handleClose that does not notify DISCONNECTED.
handleCloseSilent(c) ==
  Only({IF c1.autoReconnect THEN scheduleReconnect(c1) ELSE c1
      : c1 \in {stopPinging(c)}})

handleClose(c) ==
  Only({IF c1.autoReconnect THEN scheduleReconnect(c1) ELSE c1
      : c1 \in {stopPinging(notifyStatusChange(c, "DISCONNECTED"))}})

\* sendSafe without the readyState test.
sendSafeUnguarded(c, payload) ==
  IF c.ws # Null THEN SockSend(c, c.ws, JSONstringify(payload)) ELSE c

sendSafe(c0, payload) ==
  Only({IF IsOpen(c) THEN SockSend(c, c.ws, JSONstringify(payload)) ELSE c
      : c \in {c0}})

\* subscribe building { ...msg, action: "subscribe" }.
subscribeDActionLast(c, msg) ==
  sendSafe(c, Spread(msg, <<<<"action", "subscribe">>>>))

subscribeD(c, msg) == sendSafe(c, Spread(<<<<"action", "subscribe">>>>, msg))

unsubscribeD(c, msg) == sendSafe(c, Spread(<<<<"action", "unsubscribe">>>>, msg))

disconnectD(c) ==
  notifyStatusChange(
    cleanupWS(stopPinging(clearTimers([c EXCEPT !.autoReconnect = FALSE]))),
    "DISCONNECTED")

\* A reconnect callback that clears the marker and does not call connect().
reconnectFiredNoConnect(c, throws) == [c EXCEPT !.reconnectTimer = Null]

\* The reconnect setTimeout callback.
reconnectFired(c, throws) ==
  connectD([c EXCEPT !.reconnectTimer = Null], throws)


\* ------------------------------- variant W: src/src/clients/ws-client.ts
\* connect(); new WebSocket(this.host) is taken to succeed.
connectW(c) ==
  Only({IF IsOpen(c1) THEN c1
    ELSE NewSocket(notifyStatusChange(c1, "CONNECTING"))
      : c1 \in {[c EXCEPT !.manuallyClosed = FALSE]}})

onOpen(c) ==
  OwnerCallback(
    notifyStatusChange([c EXCEPT !.reconnecting = FALSE], "CONNECTED"),
    "onConnect", "none")

onMessage(c, data) ==
  IF ~IsString(data) \/ data = "empty" THEN c
  ELSE IF IncludesPayload(data) /\ ParsesAsJSON(data)
       THEN OwnerCallback(c, "onMessage", data)
       ELSE c

onError(c) == [c EXCEPT !.reconnecting = FALSE]

scheduleReconnectW(c0) ==
  Only({IF c.reconnecting THEN c
    ELSE [c EXCEPT !.reconnecting = TRUE, !.pendingRec = @ + 1]
      : c \in {c0}})

onClose(c) ==
  Only({IF ~c1.autoReconnect \/ c1.manuallyClosed THEN c1
    ELSE scheduleReconnectW(c1)
      : c1 \in {[notifyStatusChange(c, "DISCONNECTED") EXCEPT !.reconnecting = FALSE]}})

\* The reconnect setTimeout callback.
reconnectFiredW(c0) ==
  Only({IF c.manuallyClosed THEN c ELSE connectW(c)
      : c \in {c0}})

disconnectW(c) ==
  Only({IF IsOpen(c1) THEN SockClose(c1, c1.ws) ELSE c1
      : c1 \in {[c EXCEPT !.autoReconnect = FALSE, !.manuallyClosed = TRUE]}})

\* The body shared by subscribe and unsubscribe: the send has a completion
\* callback, which runs later.
sendW(c0, action, msg) ==
  Only({IF ~IsOpen(c) THEN c
    ELSE [SockSend(c, c.ws, JSONstringify(Spread(<<<<"action", action>>>>, msg)))
           EXCEPT !.sendCb = @ + 1]
      : c \in {c0}})

subscribeW(c, msg) == sendW(c, "subscribe", msg)

unsubscribeW(c, msg) == sendW(c, "unsubscribe", msg)

\* The completion callback of a send; err: the send failed.
sendCallback(c0, err) ==
  Only({IF err /\ c.ws # Null THEN SockClose(c, c.ws) ELSE c
      : c \in {c0}})

\* --------------------------------------------------------------- the turns
\* The transport's part of an event of socket s, before the handler runs.
\*   open:  CONNECTING -> OPEN
\*   error: the connection is broken, a close event follows
\*   close: the socket is CLOSED; this is its last event
Transport(c, s, kind) ==
  CASE kind = "open" -> [c EXCEPT !.sock[s].state = "OPEN"]
    [] kind = "error" -> [c EXCEPT !.sock[s].state = "CLOSING"]
    [] kind = "close" -> [c EXCEPT !.sock[s].state = "CLOSED"]
    [] OTHER -> c

\* The states of a socket in which the transport raises each event.
Raises(kind) ==
  CASE kind = "open" -> {"CONNECTING"}
    [] kind = "message" -> {"OPEN"}
    [] kind = "error" -> {"CONNECTING", "OPEN"}
    [] kind = "close" -> {"CONNECTING", "OPEN", "CLOSING"}

\* The function in a handler slot of variant D (connect, lines 50-53).
HandlerD(c, kind, data) ==
  CASE kind = "open" -> handleOpen(c)
    [] kind = "message" -> handleMessage(c, data)
    [] kind = "error" -> handleError(c)
    [] kind = "close" -> handleClose(c)

\* The function in a handler slot of variant W (connect, lines 50-53).
HandlerW(c, kind, data) ==
  CASE kind = "open" -> onOpen(c)
    [] kind = "message" -> onMessage(c, data)
    [] kind = "error" -> onError(c)
    [] kind = "close" -> onClose(c)

\* An event of socket s: it reaches the instance only through a handler slot
\* that is still set.
Dispatch(c, s, kind, data) ==
  Only({Collect(IF kind \in c1.sock[s].handlers
            THEN IF c1.variant = "D" THEN HandlerD(c1, kind, data)
                                     ELSE HandlerW(c1, kind, data)
            ELSE c1)
      : c1 \in {Transport(Begin(c, kind, s, <<>>, data), s, kind)}})

\* The handles and sockets a turn needs are there.
WithinBounds(c) ==
  /\ c.pendingRec <= MaxTimers
  /\ c.sendCb <= MaxCb

OwnerConnected(c) ==
  [c EXCEPT !.discCalled = IF @ = "never" THEN "never" ELSE "again"]

\* ---- variant D
ConnectD ==
  /\ variant = "D"
  /\ \E throws \in BOOLEAN :
       /\ throws \/ CanCreate(cleanupWS(Cur))
       /\ Commit(OwnerConnected(connectD(Begin(Cur, "connect", Null, <<>>, "none"), throws)))

DisconnectD ==
  /\ variant = "D"
  /\ Commit([disconnectD(Begin(Cur, "disconnect", Null, <<>>, "none"))
               EXCEPT !.discCalled = "since"])

SubscribeD ==
  /\ variant = "D"
  /\ \E msg \in Msgs : Commit(subscribeD(Begin(Cur, "subscribe", Null, msg, "none"), msg))

UnsubscribeD ==
  /\ variant = "D"
  /\ \E msg \in Msgs : Commit(unsubscribeD(Begin(Cur, "unsubscribe", Null, msg, "none"), msg))

PingTimerD ==
  /\ variant = "D"
  /\ armedPing # {}
  /\ IsOpen(Cur) => CanArm(armedPong)
  /\ Commit(pingTick(Begin(Cur, "pingTick", Null, <<>>, "none")))

\* The pong timeout with handle t fires.
PongFire(t) ==
  /\ variant = "D"
  /\ t \in armedPong
  /\ Commit(pongTimeoutFired(
       [Begin(Cur, "pongTimeout", Null, <<>>, "none") EXCEPT !.armedPong = @ \ {t}]))

PongTimerD == \E t \in TimerIds : PongFire(t)

\* A firing of the reconnect timeout right after another one is a turn of
\* its own: the two are told apart by the mark in step.data.
FiringMark ==
  IF step.op = "reconnectTimer" /\ step.data = "none" THEN "again" ELSE "none"

\* The reconnect timeout with handle t fires.
ReconnectFire(t) ==
  /\ variant = "D"
  /\ t \in armedRec
  /\ \E throws \in BOOLEAN :
       /\ throws \/ CanCreate(cleanupWS(Cur))
       /\ Commit(reconnectFired(
            [Begin(Cur, "reconnectTimer", Null, <<>>, FiringMark) EXCEPT !.armedRec = @ \ {t}],
            throws))

ReconnectTimerD == \E t \in TimerIds : ReconnectFire(t)

\* The event `kind` of socket s.
SocketEvent(s, kind) ==
  /\ sock[s].state \in Raises(kind)
  /\ \E data \in IF kind = "message" THEN InFrames ELSE {"none"} :
       \E c \in {Dispatch(Cur, s, kind, data)} : WithinBounds(c) /\ Commit(c)

SocketEventD ==
  /\ variant = "D"
  /\ \E s \in SockIds, kind \in AllHandlers : SocketEvent(s, kind)

\* ---- variant W
ConnectW ==
  /\ variant = "W"
  /\ IsOpen(Cur) \/ CanCreate(Cur)
  /\ Commit(OwnerConnected(connectW(Begin(Cur, "connect", Null, <<>>, "none"))))

DisconnectW ==
  /\ variant = "W"
  /\ Commit([disconnectW(Begin(Cur, "disconnect", Null, <<>>, "none"))
               EXCEPT !.discCalled = "since"])

SubscribeW ==
  /\ variant = "W"
  /\ \E msg \in Msgs :
       \E c \in {subscribeW(Begin(Cur, "subscribe", Null, msg, "none"), msg)} :
         WithinBounds(c) /\ Commit(c)

UnsubscribeW ==
  /\ variant = "W"
  /\ \E msg \in Msgs :
       \E c \in {unsubscribeW(Begin(Cur, "unsubscribe", Null, msg, "none"), msg)} :
         WithinBounds(c) /\ Commit(c)

SendCallbackW ==
  /\ variant = "W"
  /\ sendCb > 0
  /\ \E err \in BOOLEAN :
       Commit(sendCallback(
         [Begin(Cur, "sendCallback", Null, <<>>, "none") EXCEPT !.sendCb = @ - 1], err))

ReconnectTimerW ==
  /\ variant = "W"
  /\ pendingRec > 0
  /\ manuallyClosed \/ IsOpen(Cur) \/ CanCreate(Cur)
  /\ Commit(reconnectFiredW(
       [Begin(Cur, "reconnectTimer", Null, <<>>, "none") EXCEPT !.pendingRec = @ - 1]))

SocketEventW ==
  /\ variant = "W"
  /\ \E s \in SockIds, kind \in AllHandlers : SocketEvent(s, kind)

\* ------------------------------------------------------------ specification
\* The state after the constructor, for either class and either value of the
\* autoReconnect argument.
Init ==
  /\ variant \in {"D", "W"}
  /\ autoReconnect \in BOOLEAN
  /\ ws = Null
  /\ sock = [s \in SockIds |-> NoSocket]
  /\ pingTimer = Null
  /\ pongTimeout = Null
  /\ reconnectTimer = Null
  /\ armedPing = {}
  /\ armedPong = {}
  /\ armedRec = {}
  /\ reconnecting = FALSE
  /\ manuallyClosed = FALSE
  /\ pendingRec = 0
  /\ sendCb = 0
  /\ statusLog = <<>>
  /\ discCalled = "never"
  /\ step = [op |-> "new", sock |-> Null, msg |-> <<>>, data |-> "none",
             notes |-> <<>>, sent |-> <<>>, cbs |-> <<>>]

NextD ==
  \/ ConnectD
  \/ DisconnectD
  \/ SubscribeD
  \/ UnsubscribeD
  \/ PingTimerD
  \/ PongTimerD
  \/ ReconnectTimerD
  \/ SocketEventD

NextW ==
  \/ ConnectW
  \/ DisconnectW
  \/ SubscribeW
  \/ UnsubscribeW
  \/ SendCallbackW
  \/ ReconnectTimerW
  \/ SocketEventW

Next == NextD \/ NextW

Spec == Init /\ [][Next]_vars

\* One class at a time.
InitD == Init /\ variant = "D"

InitW == Init /\ variant = "W"

SpecD == InitD /\ [][NextD]_vars

SpecW == InitW /\ [][NextW]_vars

\* The close event of the current socket, once close() or terminate() has
\* been called on it or the connection has broken.
CloseOfCurrent ==
  /\ variant = "D"
  /\ ws # Null
  /\ sock[ws].state = "CLOSING"
  /\ SocketEvent(ws, "close")

\* Variant D with its scheduling: while a pong timeout is armed one of them
\* fires, a reconnect timeout that stays armed fires, and a socket that is
\* closing delivers its close event.
LiveSpecD ==
  /\ InitD
  /\ [][NextD]_vars
  /\ WF_vars(PongTimerD)
  /\ WF_vars(ReconnectTimerD)
  /\ WF_vars(CloseOfCurrent)

TypeOK ==
  /\ variant \in {"D", "W"}
  /\ autoReconnect \in BOOLEAN
  /\ ws \in SockIds \cup {Null}
  /\ \A s \in SockIds : sock[s].state \in ReadyStates /\ sock[s].handlers \subseteq AllHandlers
  /\ pingTimer \in TimerIds \cup {Null}
  /\ pongTimeout \in TimerIds \cup {Null}
  /\ reconnectTimer \in TimerIds \cup {Null}
  /\ armedPing \subseteq TimerIds
  /\ armedPong \subseteq TimerIds
  /\ armedRec \subseteq TimerIds
  /\ pendingRec \in 0..MaxTimers
  /\ sendCb \in 0..MaxCb
  /\ statusLog \in Seq(Statuses) /\ Len(statusLog) <= 2


\* ---------------------------------------------------------------- claims
IsD == variant = "D"

IsW == variant = "W"

\* The turn just taken notified CONNECTING or CONNECTED.
NotifiedUp ==
  \E i \in 1..Len(step.notes) : step.notes[i] \in {"CONNECTING", "CONNECTED"}

\* The turn just taken was an event of a socket.
SocketTurn == step.op \in AllHandlers

TimersD == <<pingTimer, pongTimeout, reconnectTimer, armedPing, armedPong, armedRec>>

\* C1 (variant D): once disconnect() has been called and the owner has not
\* called connect() again, no turn notifies CONNECTING or CONNECTED, whatever
\* the socket's state and whichever timers were pending at the call.
C1_NoUpAfterDisconnectD == (IsD /\ discCalled = "since") => ~NotifiedUp

\* C1 witness: a pong timeout armed before disconnect() fires after it.
C1_Witness == IsD /\ discCalled = "since" /\ step.op = "pongTimeout"

\* C2 (variant W), as claimed: once disconnect() has been called and the
\* owner has not called connect() again, no turn notifies CONNECTING or
\* CONNECTED.
C2_NoUpAfterDisconnectW == (IsW /\ discCalled = "since") => ~NotifiedUp

\* C3 (variant D): while autoReconnect is true and disconnect() has not been
\* called, at most one reconnect timer is armed; a handled close event finds
\* none armed and arms exactly one, kept in this.reconnectTimer; the timer's
\* firing calls connect() exactly once and leaves no timer armed unless the
\* socket construction threw.
C3_Premise == IsD /\ autoReconnect /\ discCalled = "never"

C3_OneReconnectPerCloseD ==
  /\ [](C3_Premise => Cardinality(armedRec) <= 1)
  /\ [][(C3_Premise' /\ step'.op = "close" /\ step'.notes # <<>>)
          => /\ armedRec = {}
             /\ Cardinality(armedRec') = 1
             /\ reconnectTimer' \in armedRec']_vars
  /\ [][(C3_Premise' /\ step'.op = "reconnectTimer")
          => /\ Cardinality(armedRec) = 1
             /\ step'.notes = <<"CONNECTING">>
             /\ (ws' # Null => armedRec' = {})]_vars

\* C3 witness: a close event was handled and its reconnect timer is armed.
C3_Witness ==
  /\ C3_Premise
  /\ step.op = "close"
  /\ step.notes = <<"DISCONNECTED">>
  /\ armedRec # {}

\* C4 (variant W), as claimed: while autoReconnect is true and disconnect()
\* has not been called, at most one reconnect timeout is pending.
C4_OnePendingReconnectW ==
  (IsW /\ autoReconnect /\ discCalled = "never") => pendingRec <= 1

\* C5 (variant D): only the socket this.ws references has handlers; every
\* other socket has all four slots cleared and close() called on it; an event
\* of such a socket notifies no status, calls no owner callback and changes
\* no timer.
C5_StaleSocketsSilentD ==
  /\ [](IsD => \A s \in SockIds :
                  (s # ws /\ sock[s].state # "FREE")
                    => sock[s].handlers = {} /\ sock[s].state \in {"CLOSING", "CLOSED"})
  /\ [](IsD => Cardinality({s \in SockIds : sock[s].handlers # {}}) <= 1)
  /\ [][(IsD /\ SocketTurn' /\ step'.sock # ws')
          => /\ step'.notes = <<>>
             /\ step'.cbs = <<>>
             /\ UNCHANGED TimersD]_vars

\* C5 witness: an event of a socket that connect() replaced is delivered while
\* the instance holds its new socket.
C5_Witness ==
  IsD /\ SocketTurn /\ step.sock # Null /\ ws # Null /\ step.sock # ws

\* C6 (variant W), as claimed: at most one socket at a time has handlers and
\* can still deliver events.
C6_OneLiveSocketW ==
  IsW => Cardinality({s \in SockIds :
            sock[s].handlers # {} /\ sock[s].state \in {"CONNECTING", "OPEN", "CLOSING"}}) <= 1

\* C7 (variant D), as claimed: right after a pong frame of the current socket
\* has been handled, no pong timeout is armed.
C7_PongDisarmsD ==
  (IsD /\ step.op = "message" /\ step.data = "pong" /\ step.sock = ws)
    => armedPong = {}

\* ---- C8
\* A ping has been sent on the open current socket and its pong timeout is
\* pending.
PingOutstanding ==
  IsD /\ IsOpen(Cur) /\ pongTimeout # Null /\ pongTimeout \in armedPong

\* The turn just taken was a pong timeout that closed the current socket.
ForcedClosed ==
  IsD /\ step.op = "pongTimeout" /\ ws # Null /\ sock[ws].state = "CLOSING"

\* The turn just taken was the owner calling connect() or disconnect().
OwnerStepped == step.op \in {"connect", "disconnect"}

\* The turn just taken handled a pong, or the connection broke by itself.
PongOrBroken ==
  \/ step.op = "message" /\ step.data = "pong"
  \/ step.op \in {"error", "close"}

\* The turn just taken was a close event that notified DISCONNECTED.
NotifiedDown ==
  IsD /\ step.op = "close" /\ step.notes = <<"DISCONNECTED">>

\* The turn just taken was the reconnect timer calling connect().
Reconnected ==
  IsD /\ step.op = "reconnectTimer" /\ step.notes = <<"CONNECTING">>

\* C8 (variant D, under LiveSpecD): while a ping is outstanding on the open
\* socket, unless a pong arrives, the connection breaks by itself or the
\* owner calls connect()/disconnect(), a pong timeout eventually fires and
\* closes the socket; then, unless the owner steps in, the close event
\* eventually notifies DISCONNECTED; and when autoReconnect is still true at
\* that point a reconnect timer is armed and, unless the owner steps in, it
\* eventually calls connect().
C8_PingTimeoutRecoversD ==
  /\ PingOutstanding ~> (ForcedClosed \/ PongOrBroken \/ OwnerStepped)
  /\ ForcedClosed ~> (NotifiedDown \/ OwnerStepped)
  /\ [](NotifiedDown /\ autoReconnect => reconnectTimer \in armedRec)
  /\ (NotifiedDown /\ autoReconnect) ~> (Reconnected \/ OwnerStepped)

\* C8 witness: with autoReconnect true and disconnect() never called, a pong
\* timeout has fired and closed the socket that was open.
C8_Witness ==
  ForcedClosed /\ autoReconnect /\ discCalled = "never" /\ armedPing # {}

\* ---- C9 and C10
SubOps == {"subscribe", "unsubscribe"}

\* C9 (both variants): subscribe/unsubscribe called while the current socket
\* is open sends exactly one frame, on that socket; called otherwise it
\* sends nothing, notifies no status, calls no callback and changes no
\* socket and no timer; and no other turn ever sends a frame that is not the
\* ping, so nothing of a dropped call is sent later.
C9_SendOnlyWhenOpen ==
  [][/\ step'.op \in SubOps =>
          /\ IsOpen(Cur) =>
                /\ Len(step'.sent) = 1
                /\ step'.sent[1].sock = ws
                /\ ws' = ws
          /\ ~IsOpen(Cur) =>
                /\ step'.sent = <<>>
                /\ UNCHANGED <<ws, sock, TimersD, pendingRec, sendCb,
                               reconnecting, manuallyClosed, autoReconnect>>
          /\ step'.notes = <<>>
          /\ step'.cbs = <<>>
          /\ UNCHANGED <<statusLog, TimersD, pendingRec>>
     /\ step'.op \notin SubOps =>
          \A i \in 1..Len(step'.sent) : step'.sent[i].data = PingFrame
    ]_vars

\* C9 witness: subscribe/unsubscribe was called with a message while the
\* current socket was not open, and nothing was sent.
C9_Witness ==
  /\ step.op \in SubOps
  /\ step.msg # <<>>
  /\ ws # Null
  /\ sock[ws].state \in {"CONNECTING", "CLOSING", "CLOSED"}
  /\ step.sent = <<>>

\* The object the frame sent by the turn just taken decodes to.
Decoded == JSONparse(step.sent[1].data)

Delivered == {i \in 1..Len(step.cbs) : step.cbs[i].cb = "onMessage"}

\* The turn just taken was a message event of a socket whose onmessage slot
\* is set.
MessageTurn ==
  /\ step.op = "message"
  /\ step.sock # Null
  /\ "message" \in sock[step.sock].handlers

\* C11 (both variants), as claimed: of the frames received on the attached
\* socket, the pong token, a frame that is not a string and an empty frame
\* are never passed to the message callback, and every other frame that is
\* valid JSON is passed to it exactly once.
C11_FramesDelivered ==
  MessageTurn =>
    /\ step.data \in {"pong", "binary", "empty"} => Delivered = {}
    /\ ParsesAsJSON(step.data) =>
         Cardinality(Delivered) = 1 /\ \A i \in Delivered : step.cbs[i].arg = step.data

\* ---- C12
\* The state a freshly constructed client is in after one connect() that
\* created the socket: one status was notified so far, by the connect() just
\* called, and disconnect() was never called.
AfterFirstConnect ==
  /\ step.op = "connect"
  /\ statusLog = <<"CONNECTING">>
  /\ discCalled = "never"
  /\ ws # Null

\* C12 (both variants): connect() on a fresh client notifies CONNECTING and
\* nothing else; the open event that follows notifies CONNECTED, which makes
\* the notifications so far CONNECTING, CONNECTED, and calls onConnect once,
\* after the notification.
C12_FirstConnectSequence ==
  [][/\ (step.op = "new" /\ step'.op = "connect" /\ ws' # Null) =>
          /\ step'.notes = <<"CONNECTING">>
          /\ statusLog' = <<"CONNECTING">>
          /\ step'.cbs = <<>>
     /\ (AfterFirstConnect /\ step'.op = "open") =>
          /\ step'.notes = <<"CONNECTED">>
          /\ statusLog' = <<"CONNECTING", "CONNECTED">>
          /\ step'.cbs = <<[cb |-> "onConnect", arg |-> "none", notes |-> 1]>>
    ]_vars

\* C12 witness: the open event came right after the first connect().
C12_Witness ==
  /\ step.op = "open"
  /\ statusLog = <<"CONNECTING", "CONNECTED">>
  /\ step.cbs # <<>>
  /\ discCalled = "never"

\* ---- C13
\* C13 (variant D), as claimed: once disconnect() has been called and the
\* owner has not called connect() again, autoReconnect is false and no ping
\* interval, no pong timeout and no reconnect timer is armed.
C13_DisconnectDisarmsD ==
  (IsD /\ discCalled = "since") =>
    /\ ~autoReconnect
    /\ armedPing = {}
    /\ armedPong = {}
    /\ armedRec = {}

\* ---- C14
\* The turn just taken was the close event of the socket the instance holds,
\* with its onclose slot set.
AttachedCloseD ==
  /\ IsD
  /\ step.op = "close"
  /\ step.sock # Null
  /\ step.sock = ws
  /\ "close" \in sock[ws].handlers

\* C14 (variant D), as claimed: the close event of the attached socket
\* notifies DISCONNECTED once, leaves no ping interval and no pong timeout
\* armed, and leaves the reconnect timer armed exactly when autoReconnect is
\* true.
C14_CloseStopsLivenessD ==
  AttachedCloseD =>
    /\ step.notes = <<"DISCONNECTED">>
    /\ armedPing = {}
    /\ armedPong = {}
    /\ IF autoReconnect
       THEN reconnectTimer # Null /\ armedRec = {reconnectTimer}
       ELSE reconnectTimer = Null /\ armedRec = {}

\* ---- C15
\* The sockets that exist, and those on which close() was called or whose
\* connection broke.
Existing == {s \in SockIds : sock[s].state # "FREE"}

Closing == {s \in SockIds : sock[s].state = "CLOSING"}

\* C15 (both variants), as claimed: the error event of a socket notifies no
\* status and calls no callback, creates no socket and closes none (the one
\* whose connection broke is the only one that starts closing), arms and
\* cancels no timer, and leaves autoReconnect and the pending marker of the
\* reconnect scheduler as they were.
C15_ErrorOnlyReports ==
  [][step'.op = "error" =>
       /\ step'.notes = <<>>
       /\ step'.cbs = <<>>
       /\ step'.sent = <<>>
       /\ ws' = ws
       /\ Cardinality(Existing') = Cardinality(Existing)
       /\ Cardinality(Closing') = Cardinality(Closing) + 1
       /\ UNCHANGED <<TimersD, pendingRec, sendCb, statusLog>>
       /\ UNCHANGED <<autoReconnect, manuallyClosed, reconnecting>>
    ]_vars

\* ---- C16
\* Text frames that are neither the pong token nor valid JSON.
Malformed == {"garbage", "garbage_payload"}

\* C16 (both variants): a message event with a malformed text frame calls no
\* callback, notifies no status, sends nothing and changes nothing of the
\* instance, its sockets and its timers; and a frame with a JSON payload
\* that the same socket delivers next is passed to the message callback.
C16_MalformedFrameDropped ==
  [][/\ (step'.op = "message" /\ step'.data \in Malformed) =>
          /\ step'.cbs = <<>>
          /\ step'.notes = <<>>
          /\ step'.sent = <<>>
          /\ UNCHANGED <<ws, sock, TimersD, pendingRec, sendCb, statusLog,
                         autoReconnect, manuallyClosed, reconnecting, discCalled>>
     /\ (/\ MessageTurn /\ step.data \in Malformed
         /\ step'.op = "message" /\ step'.sock = step.sock
         /\ step'.data = "json_payload") =>
          step'.cbs = <<[cb |-> "onMessage", arg |-> "json_payload", notes |-> 0]>>
    ]_vars

\* C16 witness: a malformed frame was handled on the attached socket, which
\* is still open; in variant D a pong timeout was pending meanwhile.
C16_Witness ==
  /\ MessageTurn
  /\ step.data \in Malformed
  /\ sock[step.sock].state = "OPEN"
  /\ IsD => pongTimeout \in armedPong

\* ---- C17
\* The status notified last, "none" before the first notification.
LastStatus == IF statusLog = <<>> THEN "none" ELSE statusLog[Len(statusLog)]

\* C17 (variant D), as claimed: a ping interval or a pong timeout is armed
\* only while the status notified last is CONNECTED.
C17_LivenessOnlyConnectedD ==
  (IsD /\ (armedPing # {} \/ armedPong # {})) => LastStatus = "CONNECTED"

\* ---- C18
\* C18 (variant D), as claimed: at most one ping interval and at most one
\* pong timeout are armed.
C18_LivenessTimersSingularD ==
  IsD => Cardinality(armedPing) <= 1 /\ Cardinality(armedPong) <= 1

\* ---- C19
\* A reconnect timer is pending: armed, with its handle in reconnectTimer.
ReconnectPending ==
  IsD /\ reconnectTimer # Null /\ reconnectTimer \in armedRec

\* The turn just taken was a connect(), by the owner or by the reconnect
\* timer, whose socket construction threw.
ConstructionFailedD ==
  IsD /\ step.op \in {"connect", "reconnectTimer"} /\ ws = Null

\* C19 (variant D, under LiveSpecD): with autoReconnect true (so disconnect()
\* was never called), a handled close event of the attached socket and a
\* failed socket construction leave the reconnect timer pending, and so does
\* every state whose last status is DISCONNECTED or that has no socket after
\* a connect(); the timer stops pending only by firing, which clears the
\* marker and calls connect(), notifying CONNECTING, or by the owner calling
\* connect()/disconnect(); and it does not stay pending forever with no
\* firing and no call of the owner.
C19_ReconnectFollowsD ==
  /\ []((AttachedCloseD /\ autoReconnect) => ReconnectPending)
  /\ []((ConstructionFailedD /\ autoReconnect) => ReconnectPending)
  /\ []((IsD /\ autoReconnect /\ (LastStatus = "DISCONNECTED" \/ (ws = Null /\ LastStatus # "none")))
         => ReconnectPending)
  /\ [][(ReconnectPending /\ autoReconnect /\ ~(ReconnectPending' /\ reconnectTimer' = reconnectTimer))
          => \/ step'.op \in {"connect", "disconnect"}
             \/ /\ step'.op = "reconnectTimer"
                /\ step'.notes = <<"CONNECTING">>
                /\ (ws' # Null => reconnectTimer' = Null)]_vars
  /\ \/ []<>~(ReconnectPending /\ autoReconnect)
     \/ []<><<ReconnectTimerD \/ ConnectD \/ DisconnectD>>_vars

\* C19 witness: with autoReconnect true, the reconnect timer fired, the
\* socket construction inside its connect() threw, and the timer is pending
\* again.
C19_Witness ==
  /\ ConstructionFailedD
  /\ step.op = "reconnectTimer"
  /\ autoReconnect
  /\ discCalled = "never"
  /\ ReconnectPending

\* ---- C20
\* The pairs of consecutive status notifications of the connection state
\* machine.
StatusPairs ==
  {<<"CONNECTING", "CONNECTED">>, <<"CONNECTING", "DISCONNECTED">>,
   <<"CONNECTED", "DISCONNECTED">>, <<"DISCONNECTED", "CONNECTING">>}

\* C20 (variant D), as claimed: the last two status notifications are always
\* one of those pairs.
C20_StatusPairsD ==
  (IsD /\ Len(statusLog) = 2) => statusLog \in StatusPairs

\* ---- C21
\* C21 (variant D), as claimed: while autoReconnect is false, whether the
\* client was constructed so or disconnect() made it so, no reconnect timer
\* is armed.
C21_NoReconnectWhenOffD ==
  (IsD /\ ~autoReconnect) => (armedRec = {} /\ reconnectTimer = Null)

\* ---- C22
\* C22 (variant D): while the status notified last is CONNECTED, the
\* instance holds a socket that has all four handler slots set, that has
\* delivered its open event and whose close event has not been handled: it
\* is open, or closing after close()/terminate() or a broken connection.
C22_ConnectedHasOpenSocketD ==
  (IsD /\ LastStatus = "CONNECTED") =>
    /\ ws # Null
    /\ sock[ws].handlers = AllHandlers
    /\ sock[ws].state \in {"OPEN", "CLOSING"}

\* C22 witness: the status notified last is CONNECTED and a pong timeout has
\* just called terminate()/close() on the socket, whose close event is still
\* to come.
C22_Witness ==
  /\ IsD
  /\ LastStatus = "CONNECTED"
  /\ step.op = "pongTimeout"
  /\ ws # Null
  /\ sock[ws].state = "CLOSING"

====
